---- MODULE Spec2Model ----
(***************************************************************************)
(* Model of weekly_ai_report_enhanced.py: the weekly rotation              *)
(* (calculate_current_week, get_companies_for_week), the run of main()     *)
(* and the response parser (parse_perplexity_response).                    *)
(*                                                                         *)
(* Three specifications share the module:                                  *)
(*   SchedSpec  the week determination and batch selection of main(),      *)
(*              lines 645-655, on inputs drawn from bounded sets;          *)
(*   Spec       one run of main() from start to exit code;                 *)
(*   ParseSpec  parse_perplexity_response on texts drawn from bounded sets.*)
(***************************************************************************)
EXTENDS Integers, Sequences, FiniteSets, TLC

VARIABLES
    \* ---- SchedSpec: inputs and result of the week/batch selection
    s_pc,            \* "ready" | "done"
    s_companies,     \* all_companies: the entity list (sequence of ids)
    s_per_week,      \* per_week (batch size)
    s_WEEK,          \* int(os.environ.get("WEEK", "0")); 0 = unset
    s_now,           \* datetime.now() - start, in hours (negative before start)
    s_result,        \* outcome of lines 645-655
    \* ---- ParseSpec: one call of parse_perplexity_response
    p_pc,            \* "ready" | "parsed"
    p_docs,          \* how the text was written: one descriptor per record
    p_text,          \* response_text
    p_companies,     \* the list the call returns
    \* ---- Spec: one run of main()
    m_pc,            \* "start" | "selected" | "received" | "saved" | "parsed" |
                     \* "reported" | "delivered" | "done"
    m_files,         \* the required files that exist
    m_key,           \* PERPLEXITY_API_KEY is set
    m_send,          \* SEND_EMAIL
    m_companies_txt, \* the entries of companies.txt
    m_WEEK,          \* int(os.environ.get("WEEK", "0")); 0 = unset
    m_now,           \* datetime.now() - start, in hours
    m_week_num,      \* week_num
    m_batch,         \* companies_this_week
    m_requests,      \* requests sent to the API so far
    m_call,          \* outcome of the request sent: "none" while none was
    m_raw,           \* raw_result
    m_data,          \* companies_data
    m_out,           \* what the run has written or sent
    m_sink,          \* the calls of save_to_file so far: content, week, written
    m_exit,          \* return value of main(), NoExit while it runs
    m_error          \* the exception that ended the run

schedVars == <<s_pc, s_companies, s_per_week, s_WEEK, s_now, s_result>>
parseVars == <<p_pc, p_docs, p_text, p_companies>>

mainVars ==
    <<m_pc, m_files, m_key, m_send, m_companies_txt, m_WEEK, m_now, m_week_num, m_batch,
      m_requests, m_call, m_raw, m_data, m_out, m_sink, m_exit, m_error>>

vars == <<schedVars, parseVars, mainVars>>

(***************************************************************************)
(* Bounds of the model.                                                    *)
(***************************************************************************)
MaxEntities == 4      \* longest entity list of SchedSpec
MaxPerWeek == 2       \* largest batch size of SchedSpec
MaxWeek == 5          \* largest explicit WEEK
MaxWeeksSpan == 2     \* reference times range over this many weeks each side of the anchor
MaxFreeLen == 3       \* longest text written line by line without any structure
MaxBullets == 3       \* a written evidence block holds up to MaxBullets + 1 bullet lines
MaxItems == 3         \* a written sources line holds up to MaxItems + 1 URLs
MaxScore == 6         \* largest score written
MaxCompanies == 7     \* most entries of companies.txt in a run of main()
MaxLabelBlocks == 2   \* most category blocks written around a lone name label
MaxUrlLines == 2      \* most lines of one URL each after a sources line

(***************************************************************************)
(* Program constants.                                                      *)
(***************************************************************************)
COMPANIES_PER_WEEK == 5
HoursPerDay == 24     \* timedelta.days counts whole days
DaysPerWeek == 7      \* weeks_passed = days_diff // 7

Min(a, b) == IF a <= b THEN a ELSE b
Max(a, b) == IF a >= b THEN a ELSE b

\* The entity list with n entries; entries are distinct ids in file order.
Entities(n) == [i \in 1..n |-> i]

(***************************************************************************)
(* Python list slice s[i:j] (0-based, end exclusive): negative indices     *)
(* count from the end, out-of-range indices are clamped.                   *)
(***************************************************************************)
PyIndex(x, len) == IF x < 0 THEN Max(0, len + x) ELSE Min(x, len)

PySlice(s, i, j) ==
    LET lo == PyIndex(i, Len(s))
        hi == PyIndex(j, Len(s))
    IN  IF lo >= hi THEN <<>> ELSE SubSeq(s, lo + 1, hi)

(***************************************************************************)
(* Results of calls that may raise: ok = FALSE carries the exception.      *)
(***************************************************************************)
Returned(v) == [ok |-> TRUE, val |-> v, err |-> "none"]
Raised(e) == [ok |-> FALSE, val |-> <<>>, err |-> e]

(***************************************************************************)
(* get_companies_for_week(companies, week_num, per_week)                   *)
(***************************************************************************)
get_companies_for_week_offbyone(companies, week_num, per_week) ==
    LET idx_start == (week_num - 1) * per_week
        idx_end == idx_start + per_week
    IN  IF idx_start > Len(companies)
        THEN Raised("ValueError: Week exceeds available companies")
        ELSE Returned(PySlice(companies, idx_start, idx_end))

get_companies_for_week(companies, week_num, per_week) ==
    LET idx_start == (week_num - 1) * per_week
        idx_end == idx_start + per_week
    IN  IF idx_start >= Len(companies)
        THEN Raised("ValueError: Week exceeds available companies")
        ELSE Returned(PySlice(companies, idx_start, idx_end))

(***************************************************************************)
(* calculate_current_week(start_date, companies_per_week, total_companies) *)
(* now is today - start in hours; (today - start).days floors to whole     *)
(* days, // floors again, and % by zero raises.                            *)
(***************************************************************************)
TruncDiv(a, b) == IF a >= 0 THEN a \div b ELSE 0 - ((0 - a) \div b)

calculate_current_week_trunc(now, companies_per_week, total_companies) ==
    LET days_diff == TruncDiv(now, HoursPerDay)
        weeks_passed == TruncDiv(days_diff, DaysPerWeek)
        total_weeks == (total_companies + companies_per_week - 1) \div companies_per_week
    IN  IF total_weeks = 0
        THEN Raised("ZeroDivisionError")
        ELSE Returned((IF weeks_passed >= 0
                       THEN weeks_passed % total_weeks
                       ELSE 0 - ((0 - weeks_passed) % total_weeks)) + 1)

calculate_current_week(now, companies_per_week, total_companies) ==
    LET days_diff == now \div HoursPerDay
        weeks_passed == days_diff \div DaysPerWeek
        total_weeks == (total_companies + companies_per_week - 1) \div companies_per_week
    IN  IF total_weeks = 0
        THEN Raised("ZeroDivisionError")
        ELSE Returned((weeks_passed % total_weeks) + 1)

(***************************************************************************)
(* main(), lines 645-655: the week is the explicit WEEK when it is not 0,  *)
(* else the calculated one; then the week's companies are selected.  An    *)
(* exception of either call ends the selection.                            *)
(***************************************************************************)
Selected(week, batch) == [ok |-> TRUE, week |-> week, batch |-> batch, err |-> "none"]
SelectFailed(week, e) == [ok |-> FALSE, week |-> week, batch |-> <<>>, err |-> e]

select_week(all_companies, WEEK, per_week, now) ==
    LET calc == calculate_current_week(now, per_week, Len(all_companies))
    IN  IF WEEK = 0
        THEN (IF calc.ok THEN Returned(calc.val) ELSE Raised(calc.err))
        ELSE Returned(WEEK)

select_batch(all_companies, WEEK, per_week, now) ==
    LET wk == select_week(all_companies, WEEK, per_week, now)
        got == get_companies_for_week(all_companies, wk.val, per_week)
    IN  IF ~wk.ok THEN SelectFailed(0, wk.err)
        ELSE IF ~got.ok THEN SelectFailed(wk.val, got.err)
        ELSE Selected(wk.val, got.val)

(***************************************************************************)
(* SchedSpec: the selection applied to every input within the bounds.      *)
(***************************************************************************)
Clock == (0 - MaxWeeksSpan * DaysPerWeek * HoursPerDay)..(MaxWeeksSpan * DaysPerWeek * HoursPerDay)

NoSelection == [ok |-> FALSE, week |-> 0, batch |-> <<>>, err |-> "not run"]

SchedIdle ==
    /\ s_pc = "idle"
    /\ s_companies = <<>>
    /\ s_per_week = 1
    /\ s_WEEK = 0
    /\ s_now = 0
    /\ s_result = NoSelection

SchedStart ==
    /\ s_pc = "ready"
    /\ \E n \in 0..MaxEntities : s_companies = Entities(n)
    /\ s_per_week \in 1..MaxPerWeek
    /\ s_WEEK \in 0..MaxWeek
    /\ s_now \in Clock
    /\ (s_WEEK # 0 => s_now = 0)     \* the clock is read only when WEEK is unset
    /\ s_result = NoSelection

SelectExplicit ==
    /\ s_pc = "ready"
    /\ s_WEEK # 0
    /\ s_result' = select_batch(s_companies, s_WEEK, s_per_week, s_now)
    /\ s_pc' = "done"
    /\ UNCHANGED <<s_companies, s_per_week, s_WEEK, s_now>>
    /\ UNCHANGED <<parseVars, mainVars>>

SelectByDate ==
    /\ s_pc = "ready"
    /\ s_WEEK = 0
    /\ s_result' = select_batch(s_companies, s_WEEK, s_per_week, s_now)
    /\ s_pc' = "done"
    /\ UNCHANGED <<s_companies, s_per_week, s_WEEK, s_now>>
    /\ UNCHANGED <<parseVars, mainVars>>


(***************************************************************************)
(* Response text.  A text is a sequence of lines joined by "\n"; a line is *)
(* one of the forms the parser's patterns tell apart:                      *)
(*   START   ---COMPANY START---          END   ---COMPANY END---          *)
(*   NAME n  Company: <name n>  (n >= 1); n = 0: "Company:" followed by    *)
(*           spaces only; n = -1: "Company:" followed by nothing           *)
(*   SIT n   SITUATION n: <title>         SCORE n  Score: n                *)
(*   KP      Key Points:                  BULLET n  - <point n>  (n >= 1); *)
(*                                                  n = 0: a bare "-"      *)
(*   TEXT n  a line of free text n        URL n    the URL n alone         *)
(*   SRC     Sources: i1 | i2 | ...  with items i >= 1 the URL i and       *)
(*           i = 0 a word that is no URL; no items: "Sources:" alone       *)
(*   BLANK   the empty line                                                *)
(***************************************************************************)
Tok(k, n, items) == [k |-> k, n |-> n, items |-> items]
START == Tok("START", 0, <<>>)
END == Tok("END", 0, <<>>)
BLANK == Tok("BLANK", 0, <<>>)
KP == Tok("KP", 0, <<>>)
NAME(n) == Tok("NAME", n, <<>>)
SIT(n) == Tok("SIT", n, <<>>)
SCORE(n) == Tok("SCORE", n, <<>>)
BULLET(n) == Tok("BULLET", n, <<>>)
TEXT(n) == Tok("TEXT", n, <<>>)
URL(n) == Tok("URL", n, <<>>)
SRC(items) == Tok("SRC", 0, items)

MaxPoints == 3        \* points[:3]
MaxSources == 2       \* sources[:2]
NumSituations == 4    \* range(1, 5)

\* s[:n]
Take(s, n) == SubSeq(s, 1, Min(n, Len(s)))

\* the least element of a set of line numbers, 0 when there is none: where a
\* search finds its first match
First(S) == IF S = {} THEN 0 ELSE CHOOSE x \in S : \A y \in S : x <= y

RECURSIVE Flatten(_)
Flatten(ss) == IF ss = <<>> THEN <<>> ELSE Head(ss) \o Flatten(Tail(ss))

(***************************************************************************)
(* CompanyAnalysis                                                         *)
(***************************************************************************)
EmptySituation == [score |-> 0, points |-> <<>>, sources |-> <<>>]

CompanyAnalysis(name) ==
    [name |-> name, situations |-> [k \in 1..NumSituations |-> EmptySituation]]

(***************************************************************************)
(* Line 80: re.search(r'Company:\s*(.+?)(?:\n|$)', block) and .strip().    *)
(* The first "Company:" (line i) decides.  With a name on its line the     *)
(* name is it.  With nothing but whitespace there, \s* runs over the line  *)
(* breaks and the capture is the next line that is not blank, whatever it  *)
(* holds; when no such line follows, the capture is one of the label's     *)
(* trailing spaces (an empty name after strip) and, without any space,     *)
(* nothing matches.                                                        *)
(***************************************************************************)
NameValue(n) == Tok("value", n, <<>>)
EmptyName == Tok("empty", 0, <<>>)
NoMatch == Tok("nomatch", 0, <<>>)

\* line.strip() of a captured line: only the label's trailing spaces go
StripLine(t) == IF t.k = "NAME" /\ t.n = 0 THEN NAME(0 - 1) ELSE t

CaptureAfterLabel(block, i, nxt) ==
    IF nxt # 0 THEN StripLine(block[nxt])
    ELSE IF block[i].n = 0 THEN EmptyName
    ELSE NoMatch

CompanyMatchAt(block, i) ==
    IF i = 0 THEN NoMatch
    ELSE IF block[i].n >= 1 THEN NameValue(block[i].n)
    ELSE CaptureAfterLabel(block, i,
             First({j \in (i + 1)..Len(block) : block[j].k # "BLANK"}))

company_match(block) ==
    CompanyMatchAt(block, First({j \in 1..Len(block) : block[j].k = "NAME"}))

(***************************************************************************)
(* Lines 93-106: the three patterns of situation sit_num, tried in order   *)
(* with re.DOTALL | re.IGNORECASE.  Under IGNORECASE pattern 3 is          *)
(* pattern 2.                                                              *)
(*                                                                         *)
(* "Sources:\s*(.+?)(?=...|$)" needs one character after the label: a      *)
(* "Sources:" that ends the block cannot end a match.                      *)
(***************************************************************************)
ValidSources(block, terminated, s) ==
    /\ block[s].k = "SRC"
    /\ (block[s].items # <<>> \/ s < Len(block) \/ terminated)

(***************************************************************************)
(* "Key Points:\s*\n(.*?)\nSources:": \s* is greedy, so group 2 starts at  *)
(* the first line after Key Points that is not blank (nb) and runs to the  *)
(* line before the first later "Sources:" (s); only when there is none,    *)
(* \s* gives back a blank line and group 2 is empty before a "Sources:"    *)
(* that is itself that first line.  The result is <<first line of group 2, *)
(* line of Sources>>, <<0, 0>> when nothing matches.                       *)
(***************************************************************************)
MatchTailTo(block, terminated, kp, nb, s) ==
    IF s # 0 THEN <<nb, s>>
    ELSE IF ValidSources(block, terminated, nb) /\ nb > kp + 1 THEN <<nb, nb>>
    ELSE <<0, 0>>

MatchTailFrom(block, terminated, kp, nb) ==
    IF nb = 0 THEN <<0, 0>>
    ELSE MatchTailTo(block, terminated, kp, nb,
             First({j \in (nb + 1)..Len(block) : ValidSources(block, terminated, j)}))

match_tail(block, terminated, kp) ==
    MatchTailFrom(block, terminated, kp,
        First({j \in (kp + 1)..Len(block) : block[j].k # "BLANK"}))

(***************************************************************************)
(* The Key Points lines a pattern accepts after the score line sc:         *)
(* pattern 1 ("Score:\s*(\d+)\s*\nKey Points:") only the first line after  *)
(* it that is not blank; patterns 2 and 3 ("(\d+)\s*\n.*?Key Points")      *)
(* every later one, nearest first.                                         *)
(***************************************************************************)
key_points_lines(block, sc, pattern) ==
    IF pattern = 1
    THEN {kp \in {First({j \in (sc + 1)..Len(block) : block[j].k # "BLANK"})} \ {0} :
             block[kp].k = "KP"}
    ELSE {j \in (sc + 1)..Len(block) : block[j].k = "KP"}

\* the Key Points lines after sc from which the rest of the pattern matches
Continuations(block, terminated, sc, pattern) ==
    {kp \in key_points_lines(block, sc, pattern) :
        match_tail(block, terminated, kp) # <<0, 0>>}

(***************************************************************************)
(* re.search(pattern, block): from the first "SITUATION n" header (h),     *)
(* ".*?" reaches for the nearest later score line (sc), across any lines   *)
(* between (DOTALL), whose continuation matches.  The result is            *)
(* [found, sc, nb, s]: the lines of the score, of group 2's start and of   *)
(* the Sources label.                                                      *)
(***************************************************************************)
NoSituationMatch == [found |-> FALSE, sc |-> 0, nb |-> 0, s |-> 0]

MatchAt(sc, tl) == [found |-> TRUE, sc |-> sc, nb |-> tl[1], s |-> tl[2]]

ReSearchScore(block, terminated, pattern, sc) ==
    IF sc = 0 THEN NoSituationMatch
    ELSE MatchAt(sc, match_tail(block, terminated,
                         First(Continuations(block, terminated, sc, pattern))))

ReSearchFrom(block, terminated, pattern, h) ==
    IF h = 0 THEN NoSituationMatch
    ELSE ReSearchScore(block, terminated, pattern,
             First({j \in (h + 1)..Len(block) :
                       /\ block[j].k = "SCORE"
                       /\ Continuations(block, terminated, j, pattern) # {}}))

re_search(block, terminated, sit_num, pattern) ==
    ReSearchFrom(block, terminated, pattern,
        First({j \in 1..Len(block) : block[j].k = "SIT" /\ block[j].n = sit_num}))

\* lines 93-106: the patterns in order, the first that matches
Patterns == <<1, 2, 3>>

FirstFound(results) ==
    IF \E p \in 1..Len(Patterns) : results[p].found
    THEN results[First({p \in 1..Len(Patterns) : results[p].found})]
    ELSE NoSituationMatch

situation_match(block, terminated, sit_num) ==
    FirstFound([p \in 1..Len(Patterns) |->
                   re_search(block, terminated, sit_num, Patterns[p])])

(***************************************************************************)
(* Lines 113-120: the bullet lines of group 2, marker removed, empty ones  *)
(* dropped.                                                                *)
(***************************************************************************)
IsPoint_minlen(t) == t.k = "BULLET" /\ t.n >= 10

IsPoint(t) == t.k = "BULLET" /\ t.n >= 1

PointsOf(kept) == [i \in 1..Len(kept) |-> kept[i].n]

extract_points(block, nb, s) == PointsOf(SelectSeq(SubSeq(block, nb, s - 1), IsPoint))

(***************************************************************************)
(* Line 123: group 3 starts at the first character after "Sources:" that   *)
(* is no whitespace (line q) and ends before the first blank line that a   *)
(* SITUATION header follows, or with the block.  It is split at "|" and    *)
(* "\n"; the pieces that start with http are the sources.  Of a later      *)
(* "Sources:" line inside group 3 the first item follows the label and is  *)
(* dropped.                                                                *)
(***************************************************************************)
IsUrlItem(i) == i >= 1

line_urls(t, matched) ==
    IF t.k = "URL" THEN <<t.n>>
    ELSE IF t.k = "SRC"
         THEN SelectSeq(IF matched THEN t.items ELSE SubSeq(t.items, 2, Len(t.items)),
                        IsUrlItem)
    ELSE <<>>

SourcesBetween(block, s, q, last) ==
    Flatten([l \in 1..(last - q + 1) |-> line_urls(block[q + l - 1], q + l - 1 = s)])

SourcesUpTo(block, s, q, stop) ==
    SourcesBetween(block, s, q, IF stop = 0 THEN Len(block) ELSE stop)

SourcesFrom(block, s, q) ==
    IF q = 0 THEN <<>>
    ELSE SourcesUpTo(block, s, q,
             First({j \in q..(Len(block) - 2) :
                       block[j + 1].k = "BLANK" /\ block[j + 2].k = "SIT"}))

extract_sources(block, s) ==
    SourcesFrom(block, s,
        IF block[s].items # <<>> THEN s
        ELSE First({j \in (s + 1)..Len(block) : block[j].k # "BLANK"}))

(***************************************************************************)
(* Lines 79-138: one company block.  The result says whether a company is  *)
(* appended (line 134) and which.                                          *)
(***************************************************************************)
parse_situation_uncapped(block, m) ==
    IF m.found
    THEN [score |-> block[m.sc].n,
          points |-> extract_points(block, m.nb, m.s),
          sources |-> extract_sources(block, m.s)]
    ELSE EmptySituation

parse_situation_three_sources(block, m) ==
    IF m.found
    THEN [score |-> block[m.sc].n,
          points |-> Take(extract_points(block, m.nb, m.s), MaxPoints),
          sources |-> Take(extract_sources(block, m.s), MaxPoints)]
    ELSE EmptySituation

parse_situation(block, m) ==
    IF m.found
    THEN [score |-> block[m.sc].n,
          points |-> Take(extract_points(block, m.nb, m.s), MaxPoints),
          sources |-> Take(extract_sources(block, m.s), MaxSources)]
    ELSE EmptySituation

append_company_always(situations_found) == TRUE

append_company(situations_found) == situations_found > 0

ParseBlockWith(block, company_name, matches) ==
    IF company_name = NoMatch
    THEN [appended |-> FALSE, company |-> CompanyAnalysis(EmptyName)]
    ELSE [appended |->
              append_company(Cardinality({k \in 1..NumSituations : matches[k].found})),
          company |->
              [name |-> company_name,
               situations |-> [k \in 1..NumSituations |-> parse_situation(block, matches[k])]]]

parse_block(block, terminated) ==
    ParseBlockWith(block, company_match(block),
        [k \in 1..NumSituations |-> situation_match(block, terminated, k)])

(***************************************************************************)
(* Lines 66-77: re.split at the start marker, the text before the first    *)
(* marker dropped, each block cut at its first end marker.  A block that   *)
(* a marker line follows ends with a line break.                           *)
(***************************************************************************)
StartLines(text) == {j \in 1..Len(text) : text[j].k = "START"}

company_block(text, st) ==
    LET nxt == First({j \in (st + 1)..Len(text) : text[j].k = "START"})
        upto == IF nxt = 0 THEN Len(text) ELSE nxt - 1
        raw == SubSeq(text, st + 1, upto)
        e == First({j \in 1..Len(raw) : raw[j].k = "END"})
    IN  IF e # 0
        THEN [lines |-> SubSeq(raw, 1, e - 1), terminated |-> TRUE]
        ELSE [lines |-> raw, terminated |-> nxt # 0]

SortedSeq(S) ==
    [i \in 1..Cardinality(S) |-> CHOOSE x \in S : Cardinality({y \in S : y < x}) = i - 1]

IsAppended(r) == r.appended

CompaniesOf(kept) == [i \in 1..Len(kept) |-> kept[i].company]

ParseBlockOf(b) == parse_block(b.lines, b.terminated)

ParseEach(text, starts) ==
    [i \in 1..Len(starts) |-> ParseBlockOf(company_block(text, starts[i]))]

parse_blocks(text) ==
    CompaniesOf(SelectSeq(ParseEach(text, SortedSeq(StartLines(text))), IsAppended))

(***************************************************************************)
(* parse_flexible: the fallback returns no company.                        *)
(***************************************************************************)
WholeTextCompany(r) == IF r.appended THEN <<r.company>> ELSE <<>>

parse_flexible_whole_text(response_text) ==
    WholeTextCompany(parse_block(response_text, FALSE))

parse_flexible(response_text) == <<>>

(***************************************************************************)
(* parse_perplexity_response                                               *)
(***************************************************************************)
parse_perplexity_response(response_text) ==
    IF StartLines(response_text) = {}
    THEN parse_flexible(response_text)
    ELSE parse_blocks(response_text)

(***************************************************************************)
(* ParseSpec: parse_perplexity_response applied to written texts.          *)
(*                                                                         *)
(* A record is written from a descriptor: the start marker or not, the     *)
(* name line (name >= 1), a blank label (0: spaces, -1: bare) or none, the *)
(* four category blocks and the end marker or not.  A category block is    *)
(* written as header, score line, "Key Points:", bullet lines, sources     *)
(* line and a blank line (sep), less the part its shape leaves out.        *)
(***************************************************************************)
NoName == 0 - 2

Shapes == {"full", "noScore", "noKeyPoints", "noSources", "absent"}

BlockDesc(shape, score, bullets, items, sep) ==
    [shape |-> shape, score |-> score, bullets |-> bullets, items |-> items, sep |-> sep]

RecordDesc(start, name, blocks, end) ==
    [start |-> start, name |-> name, blocks |-> blocks, end |-> end]

RenderBlock(k, b) ==
    IF b.shape = "absent" THEN <<>>
    ELSE <<SIT(k)>>
         \o (IF b.shape = "noScore" THEN <<>> ELSE <<SCORE(b.score)>>)
         \o (IF b.shape = "noKeyPoints" THEN <<>> ELSE <<KP>>)
         \o [i \in 1..Len(b.bullets) |-> BULLET(b.bullets[i])]
         \o (IF b.shape = "noSources" THEN <<>> ELSE <<SRC(b.items)>>)
         \o (IF b.sep THEN <<BLANK>> ELSE <<>>)

RenderRecord(d) ==
    (IF d.start THEN <<START>> ELSE <<>>)
    \o (IF d.name = NoName THEN <<>> ELSE <<NAME(d.name)>>)
    \o Flatten([k \in 1..NumSituations |-> RenderBlock(k, d.blocks[k])])
    \o (IF d.end THEN <<END>> ELSE <<>>)

RenderAll(docs) == Flatten([i \in 1..Len(docs) |-> RenderRecord(docs[i])])

\* the content a category block is written with unless said otherwise: every
\* category has a score, bullets and URLs of its own
Ids(k, n) == [i \in 1..n |-> 10 * k + i]

DefaultBlock(k, shape) == BlockDesc(shape, k + 1, Ids(k, 2), Ids(k, 2), TRUE)

\* one record whose four blocks take every combination of shapes
ShapeDocs ==
    { <<RecordDesc(TRUE, name, [k \in 1..NumSituations |-> DefaultBlock(k, sh[k])], end)>> :
        name \in {1, NoName}, end \in BOOLEAN, sh \in [1..NumSituations -> Shapes] }

\* one record of four full blocks; the block(s) of `where` vary in score, number
\* of bullets, number of URLs and separator
Variants ==
    [score : 0..MaxScore, bullets : 1..(MaxBullets + 1), items : 0..(MaxItems + 1), sep : BOOLEAN]

VariantBlock(k, v) == BlockDesc("full", v.score, Ids(k, v.bullets), Ids(k, v.items), v.sep)

ContentDocs ==
    { <<RecordDesc(start, 1,
                   [k \in 1..NumSituations |->
                       IF k \in where THEN VariantBlock(k, v) ELSE DefaultBlock(k, "full")],
                   TRUE)>> :
        start \in BOOLEAN, v \in Variants, where \in {{2}, {4}, 1..NumSituations} }

\* two records, each complete, without a name line or without any score line
PairShapes == {"full", "noScore"}

PairDocs ==
    { << RecordDesc(TRUE, n1, [k \in 1..NumSituations |-> DefaultBlock(k, s1)], e1),
         RecordDesc(TRUE, n2, [k \in 1..NumSituations |-> DefaultBlock(k, s2)], e2) >> :
        n1 \in {1, NoName}, n2 \in {2, NoName}, s1 \in PairShapes, s2 \in PairShapes,
        e1 \in BOOLEAN, e2 \in BOOLEAN }

Docs == ShapeDocs \cup ContentDocs \cup PairDocs

\* texts of up to MaxFreeLen lines that hold no start marker
FreeLines ==
    {NAME(1), SIT(1), SCORE(3), KP, BULLET(1), SRC(<<1>>), BLANK, END}

FreeTexts == UNION { [1..n -> FreeLines] : n \in 0..MaxFreeLen }

\* one segment whose name line is a name (1), a label followed by spaces (0) or
\* a bare label (-1), written before or after up to MaxLabelBlocks complete
\* category blocks, the segment ending with the text, a blank line or the
\* end marker
LabelNames == {0 - 1, 0, 1}

LabelTails == {<<>>, <<BLANK>>, <<END>>}

FullBlocks(nb) == Flatten([k \in 1..nb |-> RenderBlock(k, DefaultBlock(k, "full"))])

LabelText(first, n, nb, tail) ==
    <<START>>
    \o (IF first THEN <<NAME(n)>> ELSE <<>>)
    \o FullBlocks(nb)
    \o (IF first THEN <<>> ELSE <<NAME(n)>>)
    \o tail

LabelTexts ==
    { LabelText(first, n, nb, tail) :
        first \in BOOLEAN, n \in LabelNames, nb \in 0..MaxLabelBlocks, tail \in LabelTails }

\* The text of a bullet line after its marker: none for BULLET(0), a single
\* character for BULLET(1) .. BULLET(9), a longer text from BULLET(10) on.
PointLen(n) == IF n = 0 THEN 0 ELSE IF n < 10 THEN 1 ELSE 2

\* one record of one category whose evidence block holds up to MaxBullets + 1
\* lines: bullets without text, of one character or longer, lines without marker
EvidenceLines == {BULLET(0), BULLET(1), BULLET(2), BULLET(11), TEXT(1)}

EvidenceHead == <<START, NAME(1), SIT(1), SCORE(3), KP>>

EvidenceTail == <<SRC(<<1>>), END>>

EvidenceTexts ==
    { EvidenceHead \o ev \o EvidenceTail :
        ev \in UNION { [1..n -> EvidenceLines] : n \in 1..(MaxBullets + 1) } }

\* one record of one category whose sources line holds up to MaxItems + 1 URLs
\* separated by "|", after a piece that is no URL or not, and is followed by
\* up to MaxUrlLines lines of one URL each
SourceHead == <<START, NAME(1), SIT(1), SCORE(3), KP, BULLET(11)>>

NonUrlPieces == {<<>>, <<0>>}

UrlLines(u) == [j \in 1..u |-> URL(20 + j)]

SourceTexts ==
    { SourceHead \o <<SRC(pre \o Ids(1, i))>> \o UrlLines(u) \o <<END>> :
        pre \in NonUrlPieces, i \in 0..(MaxItems + 1), u \in 0..MaxUrlLines }

\* the texts written line by line, without a descriptor
PlainTexts == FreeTexts \cup LabelTexts \cup EvidenceTexts \cup SourceTexts

(***************************************************************************)
(* get_perplexity_response, lines 498-529: without the API key a           *)
(* ValueError before any request; else one requests.post, whose outcome    *)
(* is the content of a 200 answer, a status other than 200 or an exception *)
(* of the call (timeout, connection); both failures are raised again.      *)
(* `sent` counts the requests the call made.                               *)
(***************************************************************************)
Outcomes == {"ok", "status", "exception"}

Answered(content) == [sent |-> 1, ok |-> TRUE, val |-> content, err |-> "none"]
NotSent(e) == [sent |-> 0, ok |-> FALSE, val |-> <<>>, err |-> e]
RequestFailed(e) == [sent |-> 1, ok |-> FALSE, val |-> <<>>, err |-> e]

get_perplexity_response_nokeycheck(api_key, outcome, content) ==
    IF outcome = "ok" THEN Answered(content)
    ELSE RequestFailed("API request failed")

get_perplexity_response_swallow(api_key, outcome, content) ==
    IF ~api_key THEN NotSent("PERPLEXITY_API_KEY not found")
    ELSE IF outcome = "ok" THEN Answered(content)
    ELSE Answered(<<>>)

get_perplexity_response(api_key, outcome, content) ==
    IF ~api_key THEN NotSent("PERPLEXITY_API_KEY not found")
    ELSE IF outcome = "ok" THEN Answered(content)
    ELSE RequestFailed("API request failed")

(***************************************************************************)
(* save_to_file, lines 597-609: content is written to a file named by the  *)
(* week; when the file cannot be written the exception is caught and None  *)
(* returned.  The result says what was handed over, whether it was written *)
(* and whether the call raised.                                            *)
(***************************************************************************)
save_to_file_raising(content, week_num, writable) ==
    [content |-> content, week |-> week_num, written |-> writable, raised |-> ~writable]

save_to_file(content, week_num, writable) ==
    [content |-> content, week |-> week_num, written |-> writable, raised |-> FALSE]

(***************************************************************************)
(* Spec: one run of main().  The environment of the run is fixed at its    *)
(* start: which of the required files exist, whether the API key is set,   *)
(* SEND_EMAIL, the entries of companies.txt, WEEK and the clock.  What the *)
(* API answers and whether a file can be written is drawn at the step      *)
(* that asks.                                                              *)
(***************************************************************************)
required_files == {"prompt_updated.txt", "companies.txt", "definitions.txt"}

NoExit == 0 - 1

\* the reference times of a run: whole weeks around the anchor
RunClock ==
    {w * DaysPerWeek * HoursPerDay : w \in (0 - MaxWeeksSpan)..MaxWeeksSpan}

\* what the API may answer: a complete record, a record without any score
\* line, a complete record without its start marker, nothing
ResponseDocs ==
    { <<RecordDesc(start, 1, [k \in 1..NumSituations |-> DefaultBlock(k, sh)], TRUE)>> :
        start \in BOOLEAN, sh \in PairShapes }

Responses == {RenderAll(d) : d \in ResponseDocs} \cup {<<>>}

MainIdle ==
    /\ m_pc = "idle"
    /\ m_files = {}
    /\ m_key = FALSE
    /\ m_send = FALSE
    /\ m_companies_txt = <<>>
    /\ m_WEEK = 0
    /\ m_now = 0
    /\ m_week_num = 0
    /\ m_batch = <<>>
    /\ m_requests = 0
    /\ m_call = "none"
    /\ m_raw = <<>>
    /\ m_data = <<>>
    /\ m_out = {}
    /\ m_sink = <<>>
    /\ m_exit = NoExit
    /\ m_error = "none"

MainStart ==
    /\ m_pc = "start"
    /\ m_files \in SUBSET required_files
    /\ m_key \in BOOLEAN
    /\ m_send \in BOOLEAN
    /\ \E n \in 0..MaxCompanies : m_companies_txt = Entities(n)
    /\ m_WEEK \in 0..MaxWeek
    /\ m_now \in RunClock
    /\ (m_WEEK # 0 => m_now = 0)     \* the clock is read only when WEEK is unset
    /\ m_week_num = 0
    /\ m_batch = <<>>
    /\ m_requests = 0
    /\ m_call = "none"
    /\ m_raw = <<>>
    /\ m_data = <<>>
    /\ m_out = {}
    /\ m_sink = <<>>
    /\ m_exit = NoExit
    /\ m_error = "none"

mainEnv == <<m_files, m_key, m_send, m_companies_txt, m_WEEK, m_now>>

\* lines 725-729: any exception ends the run with exit code 1
Abort(e) ==
    /\ m_pc' = "done"
    /\ m_exit' = 1
    /\ m_error' = e

\* lines 628-631: a required file does not exist
LoadFilesFail ==
    /\ m_pc = "start"
    /\ m_files # required_files
    /\ Abort("Required file not found")
    /\ UNCHANGED <<m_week_num, m_batch, m_requests, m_call, m_raw, m_data, m_out, m_sink>>
    /\ UNCHANGED mainEnv
    /\ UNCHANGED <<schedVars, parseVars>>

\* lines 628-655: the files are read, the week determined, its companies selected
SelectWeek ==
    /\ m_pc = "start"
    /\ m_files = required_files
    /\ LET r == select_batch(m_companies_txt, m_WEEK, COMPANIES_PER_WEEK, m_now)
       IN  IF r.ok
           THEN /\ m_week_num' = r.week
                /\ m_batch' = r.batch
                /\ m_pc' = "selected"
                /\ UNCHANGED <<m_exit, m_error>>
           ELSE /\ Abort(r.err)
                /\ UNCHANGED <<m_week_num, m_batch>>
    /\ UNCHANGED <<m_requests, m_call, m_raw, m_data, m_out, m_sink>>
    /\ UNCHANGED mainEnv
    /\ UNCHANGED <<schedVars, parseVars>>

\* lines 664-675: one prompt for the whole batch, one call
RequestAnalysis ==
    /\ m_pc = "selected"
    /\ \E outcome \in Outcomes, content \in Responses :
         LET r == get_perplexity_response(m_key, outcome, content)
         IN  /\ m_requests' = m_requests + r.sent
             /\ m_call' = IF r.sent = 0 THEN m_call ELSE outcome
             /\ IF r.ok
                THEN /\ m_raw' = r.val
                     /\ m_pc' = "received"
                     /\ UNCHANGED <<m_exit, m_error>>
                ELSE /\ Abort(r.err)
                     /\ UNCHANGED m_raw
    /\ UNCHANGED <<m_week_num, m_batch, m_data, m_out, m_sink>>
    /\ UNCHANGED mainEnv
    /\ UNCHANGED <<schedVars, parseVars>>

\* line 678, save_to_file (597-609): the raw text is written to a file named
\* by the week; a failure to write is printed, not raised
SaveRaw ==
    /\ m_pc = "received"
    /\ \E writable \in BOOLEAN :
         LET r == save_to_file(m_raw, m_week_num, writable)
         IN  /\ m_sink' = Append(m_sink, [content |-> r.content, week |-> r.week,
                                          written |-> r.written])
             /\ m_out' = IF r.written THEN m_out \cup {"raw"} ELSE m_out
             /\ IF r.raised
                THEN Abort("raw text not saved")
                ELSE m_pc' = "saved" /\ UNCHANGED <<m_exit, m_error>>
    /\ UNCHANGED <<m_week_num, m_batch, m_requests, m_call, m_raw, m_data>>
    /\ UNCHANGED mainEnv
    /\ UNCHANGED <<schedVars, parseVars>>

\* line 682
ParseResponse ==
    /\ m_pc = "saved"
    /\ m_data' = parse_perplexity_response(m_raw)
    /\ m_pc' = "parsed"
    /\ UNCHANGED <<m_week_num, m_batch, m_requests, m_call, m_raw, m_out, m_exit, m_error, m_sink>>
    /\ UNCHANGED mainEnv
    /\ UNCHANGED <<schedVars, parseVars>>

\* line 695, create_excel_report (165-289): a failure is printed, not raised
CreateExcel ==
    /\ m_pc = "parsed"
    /\ \E written \in BOOLEAN :
         m_out' = IF written THEN m_out \cup {"excel"} ELSE m_out
    /\ m_pc' = "reported"
    /\ UNCHANGED <<m_week_num, m_batch, m_requests, m_call, m_raw, m_data, m_exit, m_error, m_sink>>
    /\ UNCHANGED mainEnv
    /\ UNCHANGED <<schedVars, parseVars>>

\* lines 700-702, send_html_email (530-565): a failure is printed, not raised
SendEmail ==
    /\ m_pc = "reported"
    /\ m_send
    /\ \E sent \in BOOLEAN :
         m_out' = IF sent THEN m_out \cup {"email"} ELSE m_out
    /\ m_pc' = "delivered"
    /\ UNCHANGED <<m_week_num, m_batch, m_requests, m_call, m_raw, m_data, m_exit, m_error, m_sink>>
    /\ UNCHANGED mainEnv
    /\ UNCHANGED <<schedVars, parseVars>>

\* lines 703-707: the preview is written outside any handler of its own
WritePreview ==
    /\ m_pc = "reported"
    /\ ~m_send
    /\ \E written \in BOOLEAN :
         IF written
         THEN /\ m_out' = m_out \cup {"preview"}
              /\ m_pc' = "delivered"
              /\ UNCHANGED <<m_exit, m_error>>
         ELSE /\ Abort("preview not written")
              /\ UNCHANGED m_out
    /\ UNCHANGED <<m_week_num, m_batch, m_requests, m_call, m_raw, m_data, m_sink>>
    /\ UNCHANGED mainEnv
    /\ UNCHANGED <<schedVars, parseVars>>

\* lines 709-723
Finish ==
    /\ m_pc = "delivered"
    /\ m_pc' = "done"
    /\ m_exit' = 0
    /\ UNCHANGED <<m_week_num, m_batch, m_requests, m_call, m_raw, m_data, m_out, m_error, m_sink>>
    /\ UNCHANGED mainEnv
    /\ UNCHANGED <<schedVars, parseVars>>

ParseIdle ==
    /\ p_pc = "idle"
    /\ p_docs = <<>>
    /\ p_text = <<>>
    /\ p_companies = <<>>

ParseStart ==
    /\ p_pc = "ready"
    /\ \/ p_docs \in Docs /\ p_text = RenderAll(p_docs)
       \/ p_docs = <<>> /\ p_text \in PlainTexts
    /\ p_companies = <<>>

Parse ==
    /\ p_pc = "ready"
    /\ p_companies' = parse_perplexity_response(p_text)
    /\ p_pc' = "parsed"
    /\ UNCHANGED <<p_docs, p_text>>
    /\ UNCHANGED <<schedVars, mainVars>>

ParseInit == ParseStart /\ SchedIdle /\ MainIdle

ParseNext == Parse

ParseSpec == ParseInit /\ [][ParseNext]_vars

SchedInit == SchedStart /\ ParseIdle /\ MainIdle

SchedNext == SelectExplicit \/ SelectByDate

SchedSpec == SchedInit /\ [][SchedNext]_vars

Init == MainStart /\ SchedIdle /\ ParseIdle

Next ==
    \/ LoadFilesFail
    \/ SelectWeek
    \/ RequestAnalysis
    \/ SaveRaw
    \/ ParseResponse
    \/ CreateExcel
    \/ SendEmail
    \/ WritePreview
    \/ Finish

Spec == Init /\ [][Next]_vars

(***************************************************************************)
(* Claims about the rotation (checked under SchedSpec).                    *)
(***************************************************************************)
\* ceil(n / bs), stated without integer division
CeilDiv(n, bs) == CHOOSE t \in 0..n : (t - 1) * bs < n /\ n <= t * bs

\* the k-th batch of bs entities, 1-based, the last one possibly shorter
ExpectedBatch(companies, k, bs) ==
    [i \in 1..Min(bs, Len(companies) - (k - 1) * bs) |-> companies[(k - 1) * bs + i]]

\* whole days and whole weeks elapsed at h hours after the anchor (floors)
WholeDays(h) ==
    CHOOSE d \in (0 - (MaxWeeksSpan + 1) * DaysPerWeek)..((MaxWeeksSpan + 1) * DaysPerWeek) :
        d * HoursPerDay <= h /\ h < (d + 1) * HoursPerDay

WholeWeeks(h) ==
    LET days == WholeDays(h)
    IN  CHOOSE w \in (0 - (MaxWeeksSpan + 1))..(MaxWeeksSpan + 1) :
            w * DaysPerWeek <= days /\ days < (w + 1) * DaysPerWeek

SchedTotal == CeilDiv(Len(s_companies), s_per_week)

\* C2 (as claimed): an explicit index k >= 1 on a non-empty list is normalised to
\* ((k - 1) mod totalBatches) + 1, never fails, and index totalBatches + 1 selects
\* what index 1 selects.
C2_CyclicNormalization ==
    (s_pc = "done" /\ s_WEEK # 0 /\ Len(s_companies) > 0) =>
        LET r == ((s_WEEK - 1) % SchedTotal) + 1
        IN  /\ s_result.ok
            /\ s_result.week = r
            /\ s_result.batch = ExpectedBatch(s_companies, r, s_per_week)
            /\ (s_WEEK = SchedTotal + 1 =>
                    s_result = select_batch(s_companies, 1, s_per_week, s_now))

\* C2 (amended): an explicit index k >= 1 on a non-empty list is used as given,
\* without normalisation: for k <= totalBatches the k-th batch is selected under
\* index k, and for k > totalBatches the selection raises ValueError.
C2_ExplicitIndexAsGiven ==
    (s_pc = "done" /\ s_WEEK # 0 /\ Len(s_companies) > 0) =>
        IF s_WEEK <= SchedTotal
        THEN /\ s_result.ok
             /\ s_result.week = s_WEEK
             /\ s_result.batch = ExpectedBatch(s_companies, s_WEEK, s_per_week)
        ELSE /\ ~s_result.ok
             /\ s_result.err = "ValueError: Week exceeds available companies"
             /\ s_result.batch = <<>>

\* C2 witness: index totalBatches + 1 was selected on a list of several batches.
C2_Witness ==
    /\ s_pc = "done"
    /\ SchedTotal >= 2
    /\ s_WEEK = SchedTotal + 1
    /\ ~s_result.ok

\* C3 (as claimed): on an empty entity list the selection, with an explicit index
\* or with the time-derived one, returns index 1 and an empty batch and raises
\* nothing.
C3_EmptyListSelectsNothing ==
    (s_pc = "done" /\ Len(s_companies) = 0) =>
        /\ s_result.ok
        /\ s_result.week = 1
        /\ s_result.batch = <<>>

\* C4: with no explicit index and a non-empty list, at every reference time the
\* index is (floor(daysElapsed / 7) mod totalBatches) + 1, lies in 1..totalBatches,
\* the selection does not raise and returns that batch, and every reference time
\* of the same elapsed week gives the same index and batch.
C4_TimeDerivedRotation ==
    (s_pc = "done" /\ s_WEEK = 0 /\ Len(s_companies) > 0) =>
        LET w == WholeWeeks(s_now)
            idx == (w % SchedTotal) + 1
        IN  /\ s_result.ok
            /\ s_result.week = idx
            /\ s_result.week \in 1..SchedTotal
            /\ s_result.batch = ExpectedBatch(s_companies, idx, s_per_week)
            /\ \A h \in 0..(DaysPerWeek * HoursPerDay - 1) :
                   select_batch(s_companies, 0, s_per_week,
                                w * DaysPerWeek * HoursPerDay + h) = s_result

\* C4 witness: a reference time before the anchor on a list of several batches.
C4_Witness ==
    /\ s_pc = "done"
    /\ s_WEEK = 0
    /\ s_now < 0
    /\ SchedTotal >= 2
    /\ s_result.ok
    /\ s_result.week = SchedTotal

(***************************************************************************)
(* Claims about the parser (checked under ParseSpec).                      *)
(***************************************************************************)
HasScore(b) == b.shape \notin {"noScore", "absent"}
HasKeyPoints(b) == b.shape \notin {"noKeyPoints", "absent"}
HasSources(b) == b.shape \notin {"noSources", "absent"}

\* category k of a written record can be extracted: its header is there and
\* from it on a score line, a "Key Points:" line and a sources line follow in
\* this order, in its own block or in later ones
Extractable(d, k) ==
    /\ d.blocks[k].shape # "absent"
    /\ \E j1 \in k..NumSituations : \E j2 \in j1..NumSituations : \E j3 \in j2..NumSituations :
         /\ HasScore(d.blocks[j1])
         /\ HasKeyPoints(d.blocks[j2])
         /\ HasSources(d.blocks[j3])

HasStartAndName(d) == d.start /\ d.name >= 1

HasNameAndCategory(d) ==
    /\ HasStartAndName(d)
    /\ \E k \in 1..NumSituations : Extractable(d, k)

WrittenNames(ds) == [i \in 1..Len(ds) |-> NameValue(ds[i].name)]

ParsedNames == [i \in 1..Len(p_companies) |-> p_companies[i].name]

EveryRecordStarts == \A i \in 1..Len(p_docs) : p_docs[i].start

\* C7 as stated: every segment after a start marker that holds a name line
\* yields a record, whatever becomes of its four categories; only segments
\* without a name line are dropped.
C7_NameOnlyRecordsSurvive ==
    (p_pc = "parsed" /\ p_docs # <<>> /\ EveryRecordStarts)
        => ParsedNames = WrittenNames(SelectSeq(p_docs, HasStartAndName))

\* C7 as the code has it: a segment after a start marker yields a record if
\* and only if it holds a name line and at least one of its four categories
\* can be extracted; a segment with a name line and no extractable category is
\* dropped like one without a name line.
C7_RecordNeedsNameAndCategory ==
    (p_pc = "parsed" /\ p_docs # <<>> /\ EveryRecordStarts)
        => ParsedNames = WrittenNames(SelectSeq(p_docs, HasNameAndCategory))

\* a named record whose four blocks all lack the score line was parsed and dropped
C7_Witness ==
    /\ p_pc = "parsed"
    /\ Len(p_docs) = 1
    /\ HasStartAndName(p_docs[1])
    /\ \A k \in 1..NumSituations : p_docs[1].blocks[k].shape = "noScore"
    /\ p_companies = <<>>

WellFormedBlock(b) == b.shape = "full" /\ b.score # 0 /\ b.bullets # <<>>

IsPrefix(s, t) == Len(s) <= Len(t) /\ s = SubSeq(t, 1, Len(s))

StrictlyIncreasing(s) == \A i \in 1..Len(s), j \in 1..Len(s) : i < j => s[i] < s[j]

\* one record with start marker and name whose category 2 lacks its score
\* line, the other three categories well-formed
MissingScoreOfTwo(docs) ==
    /\ Len(docs) = 1
    /\ HasStartAndName(docs[1])
    /\ docs[1].blocks[2].shape = "noScore"
    /\ \A k \in {1, 3, 4} : WellFormedBlock(docs[1].blocks[k])

\* C8: of a record whose category 2 block lacks its score line while the
\* blocks of categories 1, 3 and 4 are well-formed, the parser returns one
\* record whose category 2 is left at score 0 without points and sources and
\* whose categories 1, 3 and 4 carry their own score, points and sources;
\* nothing of category 3 appears under category 2.
C8_PerCategoryDegradation ==
    (p_pc = "parsed" /\ MissingScoreOfTwo(p_docs))
        => /\ Len(p_companies) = 1
           /\ p_companies[1].situations[2] = EmptySituation
           /\ \A k \in {1, 3, 4} :
                LET got == p_companies[1].situations[k]
                    own == p_docs[1].blocks[k]
                IN  /\ got.score = own.score
                    /\ got.points # <<>> /\ IsPrefix(got.points, own.bullets)
                    /\ got.sources # <<>> /\ IsPrefix(got.sources, own.items)

\* one record: start marker, name line, four well-formed blocks, end marker
WellFormed(docs) ==
    /\ Len(docs) = 1
    /\ HasStartAndName(docs[1])
    /\ docs[1].end
    /\ \A k \in 1..NumSituations : WellFormedBlock(docs[1].blocks[k])

\* C9: of a text with exactly one record, made of the start marker, a name
\* line, four well-formed category blocks and the end marker, the parser
\* returns exactly one record with the written name; each category has the
\* non-zero score of its own block, at most 3 points, which are the first
\* bullets of its own block in their order, and at most 3 URLs in the order
\* they were written, the block's own URLs first.
C9_WellFormedRoundTrip ==
    (p_pc = "parsed" /\ WellFormed(p_docs))
        => /\ Len(p_companies) = 1
           /\ p_companies[1].name = NameValue(p_docs[1].name)
           /\ \A k \in 1..NumSituations :
                LET got == p_companies[1].situations[k]
                    own == p_docs[1].blocks[k]
                IN  /\ got.score = own.score /\ got.score # 0
                    /\ Len(got.points) <= 3
                    /\ got.points = Take(own.bullets, Len(got.points))
                    /\ got.points # <<>>
                    /\ Len(got.sources) <= 3
                    /\ StrictlyIncreasing(got.sources)
                    /\ \A i \in 1..Min(Len(got.sources), Len(own.items)) :
                         got.sources[i] = own.items[i]

\* a well-formed record with more bullets and URLs than are kept was parsed
C9_Witness ==
    /\ p_pc = "parsed"
    /\ WellFormed(p_docs)
    /\ Len(p_docs[1].blocks[2].bullets) > 3
    /\ Len(p_docs[1].blocks[2].items) >= 3
    /\ Len(p_companies) = 1
    /\ Len(p_companies[1].situations[2].points) = 3
    /\ p_companies[1].situations[2].sources # <<>>

NoStartMarker(text) == \A i \in 1..Len(text) : text[i] # START

\* C10: of a text that holds no start marker anywhere, the empty text
\* included, the parser returns the empty list (and returns: it raises
\* nothing).
C10_NoMarkerInput ==
    (p_pc = "parsed" /\ NoStartMarker(p_text)) => p_companies = <<>>

\* a complete record written without its start marker was parsed to nothing
C10_Witness ==
    /\ p_pc = "parsed"
    /\ NoStartMarker(p_text)
    /\ Len(p_docs) = 1
    /\ p_docs[1].name >= 1
    /\ \A k \in 1..NumSituations : WellFormedBlock(p_docs[1].blocks[k])
    /\ p_companies = <<>>

\* C11: in every record the parser returns, each of the four category scores
\* is 0 (unset) or an integer in 1..5.
C11_ScoreRange ==
    p_pc = "parsed" =>
        \A i \in 1..Len(p_companies) : \A k \in 1..NumSituations :
            p_companies[i].situations[k].score \in 0..5

\* C12: every record the parser returns has a non-empty name; a segment whose
\* name line yields an empty name after trimming (a name label followed only
\* by spaces at the end of the segment) is dropped, not emitted.
C12_NonEmptyName ==
    p_pc = "parsed" =>
        \A i \in 1..Len(p_companies) : p_companies[i].name # EmptyName

IsEvidenceText(text) ==
    /\ Len(text) > Len(EvidenceHead) + Len(EvidenceTail)
    /\ SubSeq(text, 1, Len(EvidenceHead)) = EvidenceHead
    /\ SubSeq(text, Len(text) - Len(EvidenceTail) + 1, Len(text)) = EvidenceTail
    /\ \A i \in (Len(EvidenceHead) + 1)..(Len(text) - Len(EvidenceTail)) :
          text[i] \in EvidenceLines

EvidenceOf(text) ==
    SubSeq(text, Len(EvidenceHead) + 1, Len(text) - Len(EvidenceTail))

HasPointText(t) == t.k = "BULLET" /\ PointLen(t.n) > 0

\* the texts of the bullet lines that have one, in written order
WrittenPoints(text) ==
    [i \in 1..Len(SelectSeq(EvidenceOf(text), HasPointText)) |->
        SelectSeq(EvidenceOf(text), HasPointText)[i].n]

\* C13 as stated: a bullet line whose text is at or below the minimum
\* informativeness length is not among the evidence points.  Whatever
\* positive minimum is meant, a text of one character is at or below it.
C13_ShortPointsExcluded ==
    p_pc = "parsed" =>
        \A i \in 1..Len(p_companies) : \A k \in 1..NumSituations :
            \A j \in 1..Len(p_companies[i].situations[k].points) :
                PointLen(p_companies[i].situations[k].points[j]) > 1

\* C13 as the code has it: of the lines of a matched evidence block those
\* with a bullet marker and any text after it, however short, are the points;
\* only bullets without text and lines without marker are left out; the
\* points keep the written order and at most the first 3 are kept.
C13_NonEmptyPointsKept ==
    (p_pc = "parsed" /\ IsEvidenceText(p_text))
        => /\ Len(p_companies) = 1
           /\ p_companies[1].situations[1].points =
                  Take(WrittenPoints(p_text), 3)

\* an evidence block with a bullet of one character, a bullet without text and
\* a line without marker was parsed and the one-character point kept
C13_Witness ==
    /\ p_pc = "parsed"
    /\ IsEvidenceText(p_text)
    /\ \E i \in 1..Len(p_text) : p_text[i] = BULLET(0)
    /\ \E i \in 1..Len(p_text) : p_text[i] = TEXT(1)
    /\ Len(p_companies) = 1
    /\ p_companies[1].situations[1].points = <<1>>

IsSourceText(text) ==
    /\ Len(text) >= Len(SourceHead) + 2
    /\ SubSeq(text, 1, Len(SourceHead)) = SourceHead
    /\ text[Len(SourceHead) + 1].k = "SRC"
    /\ \A i \in (Len(SourceHead) + 2)..(Len(text) - 1) : text[i].k = "URL"
    /\ text[Len(text)] = END

UrlsOfLine(t) ==
    IF t.k = "URL" THEN <<t.n>>
    ELSE IF t.k = "SRC" THEN SelectSeq(t.items, IsUrlItem)
    ELSE <<>>

\* the URLs of the sources block, in written order
WrittenUrls(text) == Flatten([i \in 1..Len(text) |-> UrlsOfLine(text[i])])

\* the sources block of category k of a written record ends with its own line
OwnSourcesOnly(d, k) ==
    /\ d.blocks[k].items # <<>>
    /\ (d.blocks[k].sep \/ k = NumSituations)

\* C14 as stated: the source list of a matched category is the sequence of
\* the URLs of its sources block, split at line breaks and "|", in written
\* order, cut to the first 3: n URLs give min(n, 3) sources.
C14_FirstThreeSources ==
    (p_pc = "parsed" /\ IsSourceText(p_text))
        => /\ Len(p_companies) = 1
           /\ p_companies[1].situations[1].sources = Take(WrittenUrls(p_text), 3)

\* C14 as the code has it: the source list of a matched category is the
\* sequence of the pieces of its sources block, split at line breaks and "|",
\* that start with http, in written order, cut to the first 2: n URLs give
\* min(n, 2) sources.
C14_FirstTwoSources ==
    /\ (p_pc = "parsed" /\ IsSourceText(p_text))
          => /\ Len(p_companies) = 1
             /\ p_companies[1].situations[1].sources = Take(WrittenUrls(p_text), 2)
    /\ (p_pc = "parsed" /\ WellFormed(p_docs))
          => /\ Len(p_companies) = 1
             /\ \A k \in 1..NumSituations :
                  OwnSourcesOnly(p_docs[1], k)
                      => p_companies[1].situations[k].sources =
                             Take(p_docs[1].blocks[k].items, 2)

\* a sources block of a piece that is no URL, three URLs on the line and one
\* on a line of its own was parsed and cut to the first two URLs
C14_Witness ==
    /\ p_pc = "parsed"
    /\ IsSourceText(p_text)
    /\ p_text[Len(SourceHead) + 1] = SRC(<<0, 11, 12, 13>>)
    /\ p_text[Len(SourceHead) + 2] = URL(21)
    /\ Len(p_companies) = 1
    /\ p_companies[1].situations[1].sources = <<11, 12>>

(***************************************************************************)
(* Claims about the run of main() (checked under Spec).                    *)
(***************************************************************************)
ConfigMissing == m_files # required_files \/ ~m_key

CallFailed == m_call \in {"status", "exception"}

\* C1 as stated: when the batch holds several entities and a research call
\* fails, the run is not aborted: it goes on and ends without an error, one
\* call made for each entity of the batch.
C1_PartialFailureIsolation ==
    (m_pc = "done" /\ CallFailed /\ Len(m_batch) >= 2)
        => m_exit = 0 /\ m_requests = Len(m_batch)

\* C1 as the code has it: a run sends at most one request, for the whole
\* batch; when that request fails the run ends at once with exit code 1,
\* without raw text, records or any output written; a request that succeeded
\* is the only one and its answer is the raw text parsed.
C1_SingleRequestFailureEndsRun ==
    /\ m_requests <= 1
    /\ (m_call # "none" <=> m_requests = 1)
    /\ CallFailed =>
         /\ m_pc = "done" /\ m_exit = 1 /\ m_error = "API request failed"
         /\ m_raw = <<>> /\ m_data = <<>> /\ m_out = {}
    /\ (m_call = "ok" /\ m_pc \in {"parsed", "reported", "delivered", "done"})
         => m_data = parse_perplexity_response(m_raw)

\* the request for a batch of several entities failed and the run is over
C1_Witness ==
    /\ m_pc = "done"
    /\ CallFailed
    /\ Len(m_batch) >= 2
    /\ m_requests = 1
    /\ m_exit = 1

\* C5: a run ends with a non-zero exit code only when no research call
\* succeeded or required configuration is missing; every other run ends with
\* exit code 0.
C5_ExitOutcome ==
    m_pc = "done" => (m_exit # 0 <=> (m_call # "ok" \/ ConfigMissing))

\* C6: in a run where a required file or the API key is missing no request
\* is ever sent, and the run ends with a non-zero exit code: for a missing
\* file before anything is selected, for a missing key when the call is
\* reached.
C6_FailFastConfiguration ==
    ConfigMissing =>
        /\ m_requests = 0 /\ m_call = "none"
        /\ m_pc \in {"start", "selected", "done"}
        /\ m_pc = "done" => m_exit = 1
        /\ (m_pc = "done" /\ m_files # required_files) =>
              m_error = "Required file not found" /\ m_batch = <<>>

\* a run with all files and a batch selected ended at the call for want of the key
C6_Witness ==
    /\ m_pc = "done"
    /\ m_files = required_files
    /\ ~m_key
    /\ Len(m_batch) >= 1
    /\ m_error = "PERPLEXITY_API_KEY not found"
    /\ m_requests = 0
    /\ m_exit = 1

\* what holds of the raw text in every state of a run
RawTextSaved ==
    /\ (m_call = "ok" /\ m_pc # "received")
          => /\ Len(m_sink) = 1
             /\ m_sink[1].content = m_raw
             /\ m_sink[1].week = m_week_num
             /\ ("raw" \in m_out <=> m_sink[1].written)
    /\ m_pc = "received" => (m_sink = <<>> /\ m_data = <<>> /\ m_out = {})
    /\ m_call # "ok" => (m_sink = <<>> /\ m_out = {} /\ m_data = <<>>)
    /\ (m_pc = "done" /\ m_call = "ok")
          => /\ m_data = parse_perplexity_response(m_raw)
             /\ (m_exit = 0 \/ m_error = "preview not written")
             /\ (m_exit = 0 <=> (m_send \/ "preview" \in m_out))

\* C15: in a run whose research call returns text, save_to_file is called
\* exactly once, with that text unchanged and the week of the batch, before
\* the text is parsed and whether or not parsing yields a record; when the
\* file cannot be written the run goes on to parsing and the reports and its
\* exit code is what it would have been; when the call fails nothing is
\* saved and no report is written.
C15_RawTextSavedOnceBeforeParsing ==
    /\ []RawTextSaved
    /\ [][m_pc' = "parsed" => (Len(m_sink) = 1 /\ m_sink' = m_sink)]_vars

\* a run whose raw text could not be written and held no record ended with
\* exit code 0 and its Excel report
C15_Witness ==
    /\ m_pc = "done"
    /\ m_call = "ok"
    /\ m_raw # <<>>
    /\ Len(m_sink) = 1
    /\ ~m_sink[1].written
    /\ m_data = <<>>
    /\ "excel" \in m_out
    /\ m_exit = 0

====
